---- MODULE Spec2Model ----
(***************************************************************************)
(* GNOME Shell extension "GitHub PR Status": the panel button that polls   *)
(* GitHub on a repeating timer (GitHubPRButton) and its API client         *)
(* (GitHubClient).  Every asynchronous refresh cycle is a coroutine that   *)
(* is suspended at the token lookup, at the PR fetch or at the             *)
(* notification fetch; the handlers between two suspension points run      *)
(* atomically on the single main loop.                                     *)
(***************************************************************************)
EXTENDS Integers, Sequences, FiniteSets, TLC

(* ------------------------------ bounds --------------------------------- *)

\* largest number of refresh cycles that are suspended at the same time
MaxInFlight == 2

\* longest list of pull requests handed to categorizePRs
MaxPRs == 3

\* longest notification feed handed to fetchNotifications on its own
MaxFeed == 3

\* longest list of check contexts of a status-check rollup
MaxChecks == 2

\* longest list of reviews of a pull request
MaxReviews == 3

(* ------------------------- program constants --------------------------- *)

GRAPHQL_URL == "https://api.github.com/graphql"

NOTIFICATIONS_URL == "https://api.github.com/notifications"

\* _updateBadge shows '99+' above this count
BadgeCap == 99

\* fetchNotifications returns this for a 304 answer
NotModified == -1

(* --------------------------- input domains ----------------------------- *)

\* values of the 'refresh-interval' key (seconds; the preferences write minutes * 60)
Intervals == {60, 300}

\* the ids GLib.timeout_add_seconds hands out (never the id handed out last)
SourceIds == {1, 2}

\* values of the 'notification-filters' key
FilterSets == {<<>>, <<"review_requested">>}

\* bodies of the notification feed: arrays of objects carrying a reason
NotifFeeds ==
    << <<"mention", "review_requested", "review_requested">>,
       <<>> >>

\* a node of the GraphQL answer; an absent or null member is <<>>, a present
\* one is <<value>>; the members normalizePR only copies (title, url,
\* updatedAt, repository) are left out
RawNode(n, draft, decision, reviews, commits) ==
    [number |-> n, isDraft |-> draft, reviewDecision |-> decision,
     reviews |-> reviews, commits |-> commits]

\* ... on CheckRun { name, status, conclusion, detailsUrl }
CheckRun(name, status, conclusion) ==
    [name |-> name, status |-> status, conclusion |-> conclusion,
     detailsUrl |-> "details"]

\* ... on StatusContext { context, state, targetUrl }
StatusContext(context, state) ==
    [context |-> context, state |-> state, targetUrl |-> "target"]

\* reviews.nodes[i]: { state, author { login } }
Review(author, state) == [author |-> author, state |-> state]

\* commits(last: 1) holding one commit with this statusCheckRollup
HeadCommit(rollup) ==
    << [nodes |-> << [commit |-> << [statusCheckRollup |-> rollup] >>] >>] >>

StatusCheckRollup(state, contexts) == << [state |-> state, contexts |-> contexts] >>

Node(n, draft, decision) ==
    RawNode(n, draft, decision, << <<>> >>,
            HeadCommit(StatusCheckRollup("SUCCESS", << [nodes |-> <<>>] >>)))

\* bodies of the GraphQL answer: data.viewer.pullRequests.nodes
PRFeeds ==
    << << Node(1, FALSE, "APPROVED"), Node(2, TRUE, "APPROVED"),
          Node(3, FALSE, "CHANGES_REQUESTED"), Node(4, FALSE, "null") >>,
       << Node(5, FALSE, "REVIEW_REQUIRED") >> >>

\* an HTTP exchange: status 0 stands for send_and_read_async throwing
\* (network failure, or the session being aborted)
\* feed is the parsed body: the nodes of a GraphQL answer, the reasons of a
\* notification answer
Response(status, lastMod, body, errors, feed) ==
    [status |-> status, lastMod |-> lastMod, body |-> body,
     errors |-> errors, feed |-> feed]

PRResponses ==
    {Response(s, "", "json", FALSE, <<>>) : s \in {0, 401, 403}}
    \cup {Response(200, "", "json", FALSE, PRFeeds[f]) : f \in 1..Len(PRFeeds)}
    \cup {Response(200, "", "json", TRUE, <<>>)}

NotifResponses ==
    {Response(s, "", "json", FALSE, <<>>) : s \in {0, 304, 500}}
    \cup {Response(200, "", "json", FALSE, NotifFeeds[1]),
          Response(200, "Mon", "json", FALSE, NotifFeeds[1]),
          Response(200, "Tue", "json", FALSE, NotifFeeds[2])}
    \cup {Response(200, "Tue", "malformed", FALSE, <<>>)}

(* ------------------------------- state --------------------------------- *)

VARIABLES
    settings,               \* the GSettings keys: [interval, filters]
    settingsConnections,    \* this._settingsConnections: the connected handlers
    timerId,                \* this._timerId (0 = null)
    timers,                 \* the GLib timeout sources that are armed: [id, interval]
    client,                 \* this._client is an object (FALSE = null)
    session,                \* client._session is an object (FALSE = null)
    lastNotificationPoll,   \* client._lastNotificationPoll ("" = null)
    lastCategories,         \* this._lastCategories (<<>> = null, <<c>> = c)
    lastNotificationCount,  \* this._lastNotificationCount
    menuView,               \* the items of this.menu: [kind, msg, cats]
    menuOpen,               \* this.menu.isOpen
    badge,                  \* this._badge: [visible, text]
    cycles,                 \* the suspended _refresh() calls, in the order in
                            \* which the token lookup (pc token) or the PR
                            \* fetch (pc pr, notif) of each was issued
    destroyed,              \* destroy() has run
    ev,                     \* the handler that ran last: [op, status]
    arg,                    \* the argument of a call of a pure function
    result                  \* what that call returned (<<>> = not called yet)

vars == <<settings, settingsConnections, timerId, timers, client,
          session, lastNotificationPoll, lastCategories, lastNotificationCount,
          menuView, menuOpen, badge, cycles, destroyed, ev, arg, result>>

(* ------------------------- GitHubClient (pure) ------------------------- *)

\* node.commits?.nodes?.[0]?.commit
Commit(node) ==
    IF node.commits = <<>> THEN <<>>
    ELSE IF Len(node.commits[1].nodes) = 0 THEN <<>>
    ELSE node.commits[1].nodes[1].commit

\* commit?.statusCheckRollup
Rollup(node) ==
    IF Commit(node) = <<>> THEN <<>> ELSE Commit(node)[1].statusCheckRollup

\* rollup?.contexts?.nodes ?? []
Contexts(rollup) ==
    IF rollup = <<>> THEN <<>>
    ELSE IF rollup[1].contexts = <<>> THEN <<>>
    ELSE rollup[1].contexts[1].nodes

\* a faulty variant: a completed check run that did not succeed is pending
CheckFailureIsPending(ctx) ==
    IF "conclusion" \in DOMAIN ctx
    THEN [name |-> ctx.name,
          status |-> IF ctx.conclusion = "SUCCESS" THEN "success" ELSE "pending",
          url |-> ctx.detailsUrl]
    ELSE [name |-> ctx.context,
          status |-> IF ctx.state = "SUCCESS" THEN "success"
                     ELSE IF ctx.state = "FAILURE" \/ ctx.state = "ERROR" THEN "failure"
                     ELSE "pending",
          url |-> ctx.targetUrl]

\* the callback of the map over the contexts: a CheckRun is known by its
\* 'conclusion' member, anything else is read as a StatusContext
Check(ctx) ==
    IF "conclusion" \in DOMAIN ctx
    THEN [name |-> ctx.name,
          status |-> IF ctx.status = "COMPLETED"
                     THEN (IF ctx.conclusion = "SUCCESS" THEN "success" ELSE "failure")
                     ELSE "pending",
          url |-> ctx.detailsUrl]
    ELSE [name |-> ctx.context,
          status |-> IF ctx.state = "SUCCESS" THEN "success"
                     ELSE IF ctx.state = "FAILURE" \/ ctx.state = "ERROR" THEN "failure"
                     ELSE "pending",
          url |-> ctx.targetUrl]

\* a faulty variant: a login that is in the map keeps its first state
MapSetKeepsFirst(map, login, state) ==
    IF \E k \in 1..Len(map) : map[k].login = login
    THEN map
    ELSE Append(map, [login |-> login, state |-> state])

\* reviewMap.set(login, state): a Map keeps a key at the place of its first
\* insertion and replaces its value
MapSet(map, login, state) ==
    IF \E k \in 1..Len(map) : map[k].login = login
    THEN [k \in 1..Len(map) |->
            IF map[k].login = login THEN [login |-> login, state |-> state]
            ELSE map[k]]
    ELSE Append(map, [login |-> login, state |-> state])

\* the loop over node.reviews?.nodes ?? []: a review without an author
\* login is skipped
RECURSIVE reviewMapFrom(_, _, _)
reviewMapFrom(reviews, i, reviewMap) ==
    IF i > Len(reviews) THEN reviewMap
    ELSE LET r == reviews[i] IN
        reviewMapFrom(reviews, i + 1,
            IF r.author # <<>> /\ r.author[1].login # ""
            THEN MapSet(reviewMap, r.author[1].login, r.state)
            ELSE reviewMap)

\* a faulty variant: a rollup in state ERROR counts as pending
CiStatusErrorPending(rollup) ==
    IF rollup = <<>> THEN "none"
    ELSE LET s == rollup[1].state IN
         IF s = "SUCCESS" THEN "success"
         ELSE IF s = "FAILURE" THEN "failure"
         ELSE "pending"

\* the overall CI status
CiStatus(rollup) ==
    IF rollup = <<>> THEN "none"
    ELSE LET s == rollup[1].state IN
         IF s = "SUCCESS" THEN "success"
         ELSE IF s = "FAILURE" \/ s = "ERROR" THEN "failure"
         ELSE "pending"

normalizePR(node) ==
    LET rollup == Rollup(node)
        contexts == Contexts(rollup)
        reviews == IF node.reviews = <<>> THEN <<>> ELSE node.reviews[1]
    IN [number |-> node.number,
        isDraft |-> node.isDraft,
        reviewDecision |-> node.reviewDecision,
        reviewers |-> reviewMapFrom(reviews, 1, <<>>),
        ciStatus |-> CiStatus(rollup),
        checks |-> [k \in 1..Len(contexts) |-> Check(contexts[k])]]

RECURSIVE categorizeFrom(_, _, _)

\* a faulty variant: the review decision is looked at before isDraft
categorizeFromDecisionFirst(prs, i, categories) ==
    IF i > Len(prs) THEN categories
    ELSE LET pr == prs[i] IN
        categorizeFrom(prs, i + 1,
            IF pr.reviewDecision = "APPROVED"
            THEN [categories EXCEPT !.approved = Append(@, pr)]
            ELSE IF pr.reviewDecision = "CHANGES_REQUESTED"
            THEN [categories EXCEPT !.changesRequested = Append(@, pr)]
            ELSE IF pr.isDraft
            THEN [categories EXCEPT !.draft = Append(@, pr)]
            ELSE [categories EXCEPT !.reviewRequired = Append(@, pr)])

categorizeFrom(prs, i, categories) ==
    IF i > Len(prs) THEN categories
    ELSE LET pr == prs[i] IN
        categorizeFrom(prs, i + 1,
            IF pr.isDraft
            THEN [categories EXCEPT !.draft = Append(@, pr)]
            ELSE IF pr.reviewDecision = "APPROVED"
            THEN [categories EXCEPT !.approved = Append(@, pr)]
            ELSE IF pr.reviewDecision = "CHANGES_REQUESTED"
            THEN [categories EXCEPT !.changesRequested = Append(@, pr)]
            ELSE [categories EXCEPT !.reviewRequired = Append(@, pr)])

categorizePRs(prs) ==
    categorizeFrom(prs, 1,
        [approved |-> <<>>, changesRequested |-> <<>>,
         reviewRequired |-> <<>>, draft |-> <<>>])

Includes(seq, x) == \E i \in 1..Len(seq) : seq[i] = x

\* a faulty variant: the filter lets every notification through
FilterKeepsAll(notifications, filterReasons) == notifications

\* notifications.filter(n => filterReasons.includes(n.reason))
Filter(notifications, filterReasons) ==
    SelectSeq(notifications, LAMBDA reason : Includes(filterReasons, reason))

\* GitHubClient._request after the await: what the call returns or throws,
\* and the value it leaves in _lastNotificationPoll
Request(url, resp, poll) ==
    IF resp.status = 0
    THEN [threw |-> TRUE, isNull |-> FALSE, poll |-> poll]
    ELSE IF resp.status = 304
    THEN [threw |-> FALSE, isNull |-> TRUE, poll |-> poll]
    ELSE IF resp.status < 200 \/ resp.status >= 300
    THEN [threw |-> TRUE, isNull |-> FALSE, poll |-> poll]
    ELSE LET newPoll == IF url = NOTIFICATIONS_URL /\ resp.lastMod # ""
                        THEN resp.lastMod ELSE poll
         IN IF resp.body = "malformed"
            THEN [threw |-> TRUE, isNull |-> FALSE, poll |-> newPoll]
            ELSE [threw |-> FALSE, isNull |-> FALSE, poll |-> newPoll]

\* the If-Modified-Since header _request attaches ("" = no header)
IfModifiedSince(url, method, poll) ==
    IF method = "GET" /\ url = NOTIFICATIONS_URL /\ poll # "" THEN poll ELSE ""

\* GitHubClient.fetchPullRequests after the await
fetchPullRequests(resp, poll) ==
    LET r == Request(GRAPHQL_URL, resp, poll) IN
    IF r.threw THEN [threw |-> TRUE, categories |-> <<>>, poll |-> r.poll]
    ELSE IF r.isNull
    THEN [threw |-> TRUE, categories |-> <<>>, poll |-> r.poll]
    ELSE IF resp.errors
    THEN [threw |-> TRUE, categories |-> <<>>, poll |-> r.poll]
    ELSE LET nodes == resp.feed
             allPRs == [i \in 1..Len(nodes) |-> normalizePR(nodes[i])]
         IN [threw |-> FALSE, categories |-> <<categorizePRs(allPRs)>>, poll |-> r.poll]

\* a faulty variant: a 304 answer is reported as a count of zero
fetchNotificationsZeroOn304(resp, filterReasons, poll) ==
    LET r == Request(NOTIFICATIONS_URL, resp, poll) IN
    IF r.threw THEN [threw |-> TRUE, count |-> 0, poll |-> r.poll]
    ELSE IF r.isNull THEN [threw |-> FALSE, count |-> 0, poll |-> r.poll]
    ELSE LET data == resp.feed IN
         [threw |-> FALSE,
          count |-> IF Len(filterReasons) > 0
                    THEN Len(Filter(data, filterReasons))
                    ELSE Len(data),
          poll |-> r.poll]

\* GitHubClient.fetchNotifications after the await
fetchNotifications(resp, filterReasons, poll) ==
    LET r == Request(NOTIFICATIONS_URL, resp, poll) IN
    IF r.threw THEN [threw |-> TRUE, count |-> 0, poll |-> r.poll]
    ELSE IF r.isNull THEN [threw |-> FALSE, count |-> NotModified, poll |-> r.poll]
    ELSE LET data == resp.feed IN
         [threw |-> FALSE,
          count |-> IF Len(filterReasons) > 0
                    THEN Len(Filter(data, filterReasons))
                    ELSE Len(data),
          poll |-> r.poll]

(* ------------------------ GitHubPRButton (pure) ------------------------ *)

_buildMenuLoading == [kind |-> "loading", msg |-> "", cats |-> <<>>]

_buildMenuError(msg) == [kind |-> "error", msg |-> msg, cats |-> <<>>]

\* the menu after _buildMenu(categories): untouched while the menu is open
_buildMenu(categories, view, isOpen) ==
    IF isOpen THEN view
    ELSE [kind |-> "populated", msg |-> "", cats |-> <<categories>>]

_updateBadge(count, b) ==
    IF count > 0
    THEN [visible |-> TRUE,
          text |-> IF count > BadgeCap THEN "99+" ELSE ToString(count)]
    ELSE [visible |-> FALSE, text |-> b.text]

\* _addFooter ran for the current menu: the 'Refresh Now' item exists
HasFooter(view) == view.kind # "loading"

RemoveAt(seq, i) == SubSeq(seq, 1, i - 1) \o SubSeq(seq, i + 1, Len(seq))

\* filters and ims are what the notification request of the cycle was
\* built with: the reasons and the If-Modified-Since header ("" = none)
NewCycle == [pc |-> "token", filters |-> <<>>, ims |-> ""]

\* the synchronous start of _refresh(): runs to the await of _getToken()
StartRefresh(cs) == Append(cs, NewCycle)

\* the id GLib.timeout_add_seconds returns: never the id of the source
\* that was armed before
NextSource(last) == CHOOSE id \in SourceIds : id # last

\* the handler that ran last and the HTTP status it got (0 = none)
Event(op, status) == [op |-> op, status |-> status]

(* ------------------------------- Init ---------------------------------- *)

\* the state when _init returns: the first _refresh() is suspended at the
\* token lookup and the timer is armed
Init ==
    /\ settings \in [interval : {300}, filters : FilterSets]
    /\ settingsConnections = {"changed::refresh-interval", "changed::notification-filters"}
    /\ timerId = 1
    /\ timers = {[id |-> 1, interval |-> settings.interval]}
    /\ client = TRUE
    /\ session = TRUE
    /\ lastNotificationPoll = ""
    /\ lastCategories = <<>>
    /\ lastNotificationCount = 0
    /\ menuView = _buildMenuLoading
    /\ menuOpen = FALSE
    /\ badge = [visible |-> FALSE, text |-> ""]
    /\ cycles = StartRefresh(<<>>)
    /\ destroyed = FALSE
    /\ ev = Event("_init", 0)
    /\ arg = <<>>
    /\ result = <<>>

(* ------------------------------ timer ---------------------------------- *)

\* GLib.source_remove(this._timerId), guarded by `if (this._timerId)`
RemoveTimer(ts, id) == IF id # 0 THEN {t \in ts : t.id # id} ELSE ts

\* _startTimer on the armed sources ts: arms a repeating source with the
\* interval read from the settings and stores its id
_startTimer(ts, interval) ==
    /\ timers' = ts \cup {[id |-> NextSource(timerId), interval |-> interval]}
    /\ timerId' = NextSource(timerId)

\* a faulty variant: the old source is not removed
_restartTimerNoCancel(interval) == _startTimer(timers, interval)

_restartTimer(interval) ==
    _startTimer(RemoveTimer(timers, timerId), interval)

(* --------------------- handlers that start a cycle --------------------- *)

\* a faulty variant: the callback returns SOURCE_REMOVE
TickOnce(t) ==
    /\ t \in timers
    /\ Len(cycles) < MaxInFlight
    /\ cycles' = StartRefresh(cycles)
    /\ timers' = timers \ {t}
    /\ ev' = Event("tick", 0)
    /\ UNCHANGED <<settings, settingsConnections, timerId,
                   client, session, lastNotificationPoll, lastCategories,
                   lastNotificationCount, menuView, menuOpen, badge, destroyed>>
    /\ UNCHANGED <<arg, result>>

\* the timeout callback of _startTimer: _refresh(), return SOURCE_CONTINUE
Tick(t) ==
    /\ t \in timers
    /\ Len(cycles) < MaxInFlight
    /\ cycles' = StartRefresh(cycles)
    /\ ev' = Event("tick", 0)
    /\ UNCHANGED <<settings, settingsConnections, timerId, timers,
                   client, session, lastNotificationPoll, lastCategories,
                   lastNotificationCount, menuView, menuOpen, badge, destroyed>>
    /\ UNCHANGED <<arg, result>>

\* the user activates 'Refresh Now' in the footer of the open menu
ManualRefresh(staysOpen) ==
    /\ ~destroyed
    /\ menuOpen
    /\ HasFooter(menuView)
    /\ Len(cycles) < MaxInFlight
    /\ cycles' = StartRefresh(cycles)
    /\ menuOpen' = staysOpen
    /\ ev' = Event("manualRefresh", 0)
    /\ UNCHANGED <<settings, settingsConnections, timerId, timers,
                   client, session, lastNotificationPoll, lastCategories,
                   lastNotificationCount, menuView, badge, destroyed>>
    /\ UNCHANGED <<arg, result>>

\* the 'refresh-interval' key changes; its handler is _restartTimer()
SetInterval(n) ==
    /\ n # settings.interval
    /\ settings' = [settings EXCEPT !.interval = n]
    /\ IF "changed::refresh-interval" \in settingsConnections
       THEN _restartTimer(n)
       ELSE UNCHANGED <<timers, timerId>>
    /\ ev' = Event("setInterval", 0)
    /\ UNCHANGED <<settingsConnections, client, session, lastNotificationPoll,
                   lastCategories, lastNotificationCount, menuView, menuOpen,
                   badge, cycles, destroyed>>
    /\ UNCHANGED <<arg, result>>

\* the 'notification-filters' key changes; its handler is _refresh()
SetFilters(f) ==
    /\ f # settings.filters
    /\ settings' = [settings EXCEPT !.filters = f]
    /\ IF "changed::notification-filters" \in settingsConnections
       THEN /\ Len(cycles) < MaxInFlight
            /\ cycles' = StartRefresh(cycles)
       ELSE UNCHANGED cycles
    /\ ev' = Event("setFilters", 0)
    /\ UNCHANGED <<settingsConnections, timerId, timers, client,
                   session, lastNotificationPoll, lastCategories,
                   lastNotificationCount, menuView, menuOpen, badge, destroyed>>
    /\ UNCHANGED <<arg, result>>

(* ------------------------------- menu ---------------------------------- *)

OpenMenu ==
    /\ ~destroyed
    /\ ~menuOpen
    /\ menuOpen' = TRUE
    /\ ev' = Event("openMenu", 0)
    /\ UNCHANGED <<settings, settingsConnections, timerId, timers,
                   client, session, lastNotificationPoll, lastCategories,
                   lastNotificationCount, menuView, badge, cycles, destroyed>>
    /\ UNCHANGED <<arg, result>>

CloseMenu ==
    /\ ~destroyed
    /\ menuOpen
    /\ menuOpen' = FALSE
    /\ ev' = Event("closeMenu", 0)
    /\ UNCHANGED <<settings, settingsConnections, timerId, timers,
                   client, session, lastNotificationPoll, lastCategories,
                   lastNotificationCount, menuView, badge, cycles, destroyed>>
    /\ UNCHANGED <<arg, result>>

(* ------------------------------ destroy -------------------------------- *)

\* a faulty variant: the handle is dropped without removing the source
DestroyKeepsTimer ==
    /\ ~destroyed
    /\ timerId' = 0
    /\ settingsConnections' = {}
    /\ client' = FALSE
    /\ session' = FALSE
    /\ menuOpen' = FALSE
    /\ destroyed' = TRUE
    /\ ev' = Event("destroy", 0)
    /\ UNCHANGED <<settings, timers, lastNotificationPoll, lastCategories,
                   lastNotificationCount, menuView, badge, cycles>>
    /\ UNCHANGED <<arg, result>>

\* a faulty variant: the settings handlers stay connected
DestroyKeepsHandlers ==
    /\ ~destroyed
    /\ timers' = RemoveTimer(timers, timerId)
    /\ timerId' = 0
    /\ client' = FALSE
    /\ session' = FALSE
    /\ menuOpen' = FALSE
    /\ destroyed' = TRUE
    /\ ev' = Event("destroy", 0)
    /\ UNCHANGED <<settings, settingsConnections, lastNotificationPoll,
                   lastCategories, lastNotificationCount, menuView, badge, cycles>>
    /\ UNCHANGED <<arg, result>>

\* GitHubPRButton.destroy with GitHubClient.destroy: the timer is removed,
\* the handlers are disconnected, the session is aborted and dropped
Destroy ==
    /\ ~destroyed
    /\ timers' = RemoveTimer(timers, timerId)
    /\ timerId' = 0
    /\ settingsConnections' = {}
    /\ client' = FALSE
    /\ session' = FALSE
    /\ menuOpen' = FALSE
    /\ destroyed' = TRUE
    /\ ev' = Event("destroy", 0)
    /\ UNCHANGED <<settings, lastNotificationPoll, lastCategories,
                   lastNotificationCount, menuView, badge, cycles>>
    /\ UNCHANGED <<arg, result>>

(* --------------------------- refresh cycle ----------------------------- *)

AtPc(i, pc) == i \in 1..Len(cycles) /\ cycles[i].pc = pc

\* a pending request of an aborted session completes only by throwing
Answers(resp) == session \/ resp.status = 0

\* 304 answers a conditional request only: one sent with If-Modified-Since
AnswersTo(c, resp) == resp.status = 304 => c.ims # ""

\* a faulty variant: every failed PR fetch rebuilds the menu as an error
CatchPRFetchAlways(cats, view) == _buildMenuError("Error: e.message")

\* the catch block of the PR fetch in _refresh; the text of e.message is
\* not modelled
CatchPRFetch(cats, view) ==
    IF cats = <<>> THEN _buildMenuError("Error: e.message") ELSE view

\* a faulty variant: the notification fetch uses the filters the cycle started with
IssueNotificationsStale(cs, i) ==
    IF client
    THEN [cs EXCEPT ![i] =
            [pc |-> "notif", filters |-> cs[i].filters,
             ims |-> IfModifiedSince(NOTIFICATIONS_URL, "GET", lastNotificationPoll)]]
    ELSE RemoveAt(cs, i)

\* _refresh from the notification try block to its await: the filters are
\* read, the request is built and sent; with this._client null the call
\* throws and the cycle ends in the catch block
IssueNotifications(cs, i) ==
    IF client
    THEN [cs EXCEPT ![i] =
            [pc |-> "notif", filters |-> settings.filters,
             ims |-> IfModifiedSince(NOTIFICATIONS_URL, "GET", lastNotificationPoll)]]
    ELSE RemoveAt(cs, i)

\* a faulty variant: the failed lookup also hides the badge
TokenLookupFailsHidesBadge(i) ==
    /\ AtPc(i, "token")
    /\ menuView' = _buildMenuError("Failed to read token from keyring")
    /\ badge' = _updateBadge(0, badge)
    /\ cycles' = RemoveAt(cycles, i)
    /\ ev' = Event("tokenThrow", 0)
    /\ UNCHANGED <<settings, settingsConnections, timerId, timers,
                   client, session, lastNotificationPoll, lastCategories,
                   lastNotificationCount, menuOpen, destroyed>>
    /\ UNCHANGED <<arg, result>>

\* _getToken() throws
TokenLookupFails(i) ==
    /\ AtPc(i, "token")
    /\ menuView' = _buildMenuError("Failed to read token from keyring")
    /\ cycles' = RemoveAt(cycles, i)
    /\ ev' = Event("tokenThrow", 0)
    /\ UNCHANGED <<settings, settingsConnections, timerId, timers,
                   client, session, lastNotificationPoll, lastCategories,
                   lastNotificationCount, menuOpen, badge, destroyed>>
    /\ UNCHANGED <<arg, result>>

\* a faulty variant: a missing token does not end the cycle, the PR fetch is sent
TokenAbsentFetches(i) ==
    /\ AtPc(i, "token")
    /\ menuView' = _buildMenuError("No token configured")
    /\ badge' = _updateBadge(0, badge)
    /\ cycles' = [cycles EXCEPT ![i].pc = "pr"]
    /\ ev' = Event("noToken", 0)
    /\ UNCHANGED <<settings, settingsConnections, timerId, timers,
                   client, session, lastNotificationPoll, lastCategories,
                   lastNotificationCount, menuOpen, destroyed>>
    /\ UNCHANGED <<arg, result>>

\* _getToken() returns null or ''
TokenAbsent(i) ==
    /\ AtPc(i, "token")
    /\ menuView' = _buildMenuError("No token configured")
    /\ badge' = _updateBadge(0, badge)
    /\ cycles' = RemoveAt(cycles, i)
    /\ ev' = Event("noToken", 0)
    /\ UNCHANGED <<settings, settingsConnections, timerId, timers,
                   client, session, lastNotificationPoll, lastCategories,
                   lastNotificationCount, menuOpen, destroyed>>
    /\ UNCHANGED <<arg, result>>

\* _getToken() returns a token and fetchPullRequests sends the GraphQL query
TokenFound(i) ==
    /\ AtPc(i, "token")
    /\ client
    /\ cycles' = Append(RemoveAt(cycles, i), [cycles[i] EXCEPT !.pc = "pr"])
    /\ ev' = Event("tokenFound", 0)
    /\ UNCHANGED <<settings, settingsConnections, timerId, timers,
                   client, session, lastNotificationPoll, lastCategories,
                   lastNotificationCount, menuView, menuOpen, badge, destroyed>>
    /\ UNCHANGED <<arg, result>>

\* _getToken() returns a token after destroy(): this._client is null, both
\* fetch calls throw at once and both catch blocks run
TokenFoundClientGone(i) ==
    /\ AtPc(i, "token")
    /\ ~client
    /\ menuView' = CatchPRFetch(lastCategories, menuView)
    /\ cycles' = RemoveAt(cycles, i)
    /\ ev' = Event("clientGone", 0)
    /\ UNCHANGED <<settings, settingsConnections, timerId, timers,
                   client, session, lastNotificationPoll, lastCategories,
                   lastNotificationCount, menuOpen, badge, destroyed>>
    /\ UNCHANGED <<arg, result>>

\* the GraphQL request completes: the rest of the first try block or its
\* catch block, then the notification request is issued
PRFetchDone(i, resp) ==
    /\ AtPc(i, "pr")
    /\ Answers(resp)
    /\ LET r == fetchPullRequests(resp, lastNotificationPoll) IN
       /\ lastNotificationPoll' = r.poll
       /\ IF r.threw
          THEN /\ menuView' = CatchPRFetch(lastCategories, menuView)
               /\ UNCHANGED lastCategories
          ELSE /\ lastCategories' = r.categories
               /\ menuView' = _buildMenu(r.categories[1], menuView, menuOpen)
       /\ ev' = Event(IF r.threw THEN "prFail" ELSE "prOk", resp.status)
    /\ cycles' = IssueNotifications(cycles, i)
    /\ UNCHANGED <<settings, settingsConnections, timerId, timers,
                   client, session, lastNotificationCount, menuOpen, badge,
                   destroyed>>
    /\ UNCHANGED <<arg, result>>

\* the notification request completes: the rest of the second try block or
\* its catch block; the cycle ends
NotificationsDone(i, resp) ==
    /\ AtPc(i, "notif")
    /\ Answers(resp)
    /\ AnswersTo(cycles[i], resp)
    /\ LET r == fetchNotifications(resp, cycles[i].filters, lastNotificationPoll) IN
       /\ lastNotificationPoll' = r.poll
       /\ IF ~r.threw /\ r.count >= 0
          THEN /\ lastNotificationCount' = r.count
               /\ badge' = _updateBadge(r.count, badge)
          ELSE UNCHANGED <<lastNotificationCount, badge>>
    /\ cycles' = RemoveAt(cycles, i)
    /\ ev' = Event("notifDone", resp.status)
    /\ UNCHANGED <<settings, settingsConnections, timerId, timers,
                   client, session, lastCategories, menuView, menuOpen, destroyed>>
    /\ UNCHANGED <<arg, result>>

(* ------------------------------- Next ---------------------------------- *)

Next ==
    \/ \E t \in timers : Tick(t)
    \/ \E staysOpen \in BOOLEAN : ManualRefresh(staysOpen)
    \/ \E n \in Intervals : SetInterval(n)
    \/ \E f \in FilterSets : SetFilters(f)
    \/ OpenMenu
    \/ CloseMenu
    \/ Destroy
    \/ \E i \in 1..MaxInFlight : TokenLookupFails(i)
    \/ \E i \in 1..MaxInFlight : TokenAbsent(i)
    \/ \E i \in 1..MaxInFlight : TokenFound(i)
    \/ \E i \in 1..MaxInFlight : TokenFoundClientGone(i)
    \/ \E i \in 1..MaxInFlight, resp \in PRResponses : PRFetchDone(i, resp)
    \/ \E i \in 1..MaxInFlight, resp \in NotifResponses : NotificationsDone(i, resp)

Spec == Init /\ [][Next]_vars

(* ------------------- the pure functions on their own ------------------- *)

\* no button exists: the functions of github.js are called on their own
NoButton ==
    /\ settings = [interval |-> 300, filters |-> <<>>]
    /\ settingsConnections = {}
    /\ timerId = 0
    /\ timers = {}
    /\ client = FALSE
    /\ session = FALSE
    /\ lastNotificationPoll = ""
    /\ lastCategories = <<>>
    /\ lastNotificationCount = 0
    /\ menuView = _buildMenuLoading
    /\ menuOpen = FALSE
    /\ badge = [visible |-> FALSE, text |-> ""]
    /\ cycles = <<>>
    /\ destroyed = FALSE
    /\ ev = Event("none", 0)

button == <<settings, settingsConnections, timerId, timers, client,
            session, lastNotificationPoll, lastCategories, lastNotificationCount,
            menuView, menuOpen, badge, cycles, destroyed, ev>>

\* the values of reviewDecision: the three of the API, null, and one the
\* code does not name
Decisions == {"APPROVED", "CHANGES_REQUESTED", "REVIEW_REQUIRED", "null", "DISMISSED"}

\* the lists of normalized pull requests of up to MaxPRs entries; the
\* number of an entry is its place in the list
PRLists ==
    UNION { { [i \in 1..n |-> normalizePR(Node(i, f[i][1], f[i][2]))] :
                f \in [1..n -> BOOLEAN \X Decisions] } : n \in 0..MaxPRs }

CategorizeInit ==
    /\ NoButton
    /\ arg \in PRLists
    /\ result = <<>>

\* const categories = categorizePRs(allPRs)
CallCategorizePRs ==
    /\ result = <<>>
    /\ result' = <<categorizePRs(arg)>>
    /\ UNCHANGED <<arg, button>>

SpecCategorize == CategorizeInit /\ [][CallCategorizePRs]_vars

\* the reasons of the entries of a feed: two the preferences offer and one
\* they do not
FeedReasons == {"mention", "review_requested", "subscribed"}

\* the feeds of up to MaxFeed entries
Feeds == UNION {[1..n -> FeedReasons] : n \in 0..MaxFeed}

\* values of get_strv('notification-filters')
ReasonLists ==
    {<<>>, <<"review_requested">>, <<"mention", "review_requested">>, <<"assign">>}

NotificationsInit ==
    /\ NoButton
    /\ arg \in [feed : Feeds, filterReasons : ReasonLists, lastMod : {"", "Mon"}]
    /\ result = <<>>

\* fetchNotifications(token, filterReasons) on a request that is answered
\* 200 with the feed as its body
CallFetchNotifications ==
    /\ result = <<>>
    /\ result' = <<fetchNotifications(
                        Response(200, arg.lastMod, "json", FALSE, arg.feed),
                        arg.filterReasons, "")>>
    /\ UNCHANGED <<arg, button>>

SpecNotifications == NotificationsInit /\ [][CallFetchNotifications]_vars

\* StatusState of the API, for a rollup and for a StatusContext
StatusStates == {"SUCCESS", "FAILURE", "ERROR", "PENDING", "EXPECTED"}

\* the check contexts: check runs by status and conclusion (null while not
\* completed), status contexts by state
ContextKinds ==
    {CheckRun("build", "COMPLETED", c) : c \in {"SUCCESS", "FAILURE", "NEUTRAL"}}
    \cup {CheckRun("build", st, "null") : st \in {"IN_PROGRESS", "QUEUED"}}
    \cup {StatusContext("ci/lint", st) : st \in StatusStates}

ContextLists == UNION {[1..n -> ContextKinds] : n \in 0..MaxChecks}

\* node.commits: absent, without a commit, with a null commit, with a
\* commit without a rollup, with a rollup with or without contexts
CommitsKinds ==
    { <<>>, << [nodes |-> <<>>] >>, << [nodes |-> << [commit |-> <<>>] >>] >>,
      HeadCommit(<<>>) }
    \cup {HeadCommit(StatusCheckRollup(st, <<>>)) : st \in StatusStates}
    \cup {HeadCommit(StatusCheckRollup(st, << [nodes |-> cs] >>)) :
            st \in StatusStates, cs \in ContextLists}

\* a review: by a deleted account (author null) or by one of two logins
ReviewKinds ==
    {Review(a, st) : a \in {<<>>, << [login |-> "A"] >>, << [login |-> "B"] >>},
                     st \in {"APPROVED", "CHANGES_REQUESTED", "COMMENTED"}}

\* node.reviews: absent, or the list of its nodes
ReviewsKinds ==
    { <<>> } \cup { <<rs>> : rs \in UNION {[1..n -> ReviewKinds] : n \in 0..MaxReviews} }

\* the raw nodes normalizePR is applied to: every kind of commits without
\* reviews, every kind of reviews without commits
RawNodes ==
    {RawNode(1, FALSE, "null", <<>>, c) : c \in CommitsKinds}
    \cup {RawNode(1, FALSE, "null", r, <<>>) : r \in ReviewsKinds}

NormalizeInit ==
    /\ NoButton
    /\ arg \in RawNodes
    /\ result = <<>>

\* nodes.map(normalizePR), for one node
CallNormalizePR ==
    /\ result = <<>>
    /\ result' = <<normalizePR(arg)>>
    /\ UNCHANGED <<arg, button>>

SpecNormalize == NormalizeInit /\ [][CallNormalizePR]_vars

(* ------------------------------ claims --------------------------------- *)

ErrorView(view) == view.kind = "error"

PopulatedView(cats) == [kind |-> "populated", msg |-> "", cats |-> cats]

\* the number of refresh cycles suspended at pc
Pending(cs, pc) == Cardinality({i \in 1..Len(cs) : cs[i].pc = pc})

\* cs2 is cs without one cycle that was suspended at pc
EndsCycleAt(cs, cs2, pc) ==
    \E i \in 1..Len(cs) : cs[i].pc = pc /\ cs2 = RemoveAt(cs, i)

\* C1: a refresh cycle whose PR fetch fails leaves the cached bucket set as
\* it was, and it builds the error menu exactly when no bucket set was
\* cached (otherwise it leaves the menu alone); the cached bucket set is
\* replaced only by a successful PR fetch, so after one success any run of
\* failures keeps the last successful result
C1_FailedFetchKeepsBuckets ==
    [][ /\ ev'.op \in {"prFail", "clientGone"} =>
            /\ lastCategories' = lastCategories
            /\ lastCategories = <<>> => ErrorView(menuView')
            /\ lastCategories # <<>> => menuView' = menuView
        /\ lastCategories' # lastCategories =>
            /\ ev'.op = "prOk"
            /\ lastCategories' # <<>> ]_vars

\* a PR fetch has just failed while a bucket set was cached and shown
C1_Witness ==
    /\ ev.op = "prFail"
    /\ lastCategories # <<>>
    /\ menuView = PopulatedView(lastCategories)

\* C2 (as claimed): after a failed PR fetch with a cached bucket set the
\* menu shows the populated view of that bucket set
C2_FailureShowsLastGood ==
    (ev.op = "prFail" /\ lastCategories # <<>>)
        => menuView = PopulatedView(lastCategories)

\* C3 (as claimed): once destroy() has run no handler changes the cached
\* bucket set, the cached count, the cache token, the menu or the badge
C3_NoMutationAfterDestroy ==
    [][destroyed =>
        /\ lastCategories' = lastCategories
        /\ lastNotificationCount' = lastNotificationCount
        /\ lastNotificationPoll' = lastNotificationPoll
        /\ menuView' = menuView
        /\ badge' = badge]_vars

\* C4: a token lookup that returns no token builds the 'No token
\* configured' menu, hides the badge and ends the cycle there: no request
\* is sent, every other cycle is as it was
C4_NoTokenNoRequests ==
    [][ev'.op = "noToken" =>
        /\ menuView' = _buildMenuError("No token configured")
        /\ ~badge'.visible
        /\ EndsCycleAt(cycles, cycles', "token")
        /\ Pending(cycles', "pr") = Pending(cycles, "pr")
        /\ Pending(cycles', "notif") = Pending(cycles, "notif")
        /\ lastNotificationPoll' = lastNotificationPoll]_vars

\* a cycle without a token has just hidden a badge that was showing
C4_Witness ==
    /\ ev.op = "noToken"
    /\ badge.text # ""
    /\ ~badge.visible
    /\ ~destroyed

\* the notification exchanges that end without a count: a 304, a status
\* outside 2xx, a transport failure, a body that does not parse
NoCount(resp) == resp.status # 200 \/ resp.body = "malformed"

\* C5: a 304 makes fetchNotifications return the sentinel; a notification
\* fetch that returns it or fails leaves the cached count and the badge as
\* they were, and no notification fetch touches the menu; the cached count
\* is never negative, so never the sentinel
C5_UnchangedKeepsCount ==
    /\ [](/\ lastNotificationCount >= 0
          /\ lastNotificationCount # NotModified
          /\ \A resp \in NotifResponses, f \in FilterSets :
                resp.status = 304 =>
                    LET r == fetchNotifications(resp, f, lastNotificationPoll)
                    IN ~r.threw /\ r.count = NotModified)
    /\ [][ev'.op = "notifDone" =>
            /\ menuView' = menuView
            /\ \A i \in 1..Len(cycles), resp \in NotifResponses :
                (NoCount(resp) /\ NotificationsDone(i, resp)) =>
                    /\ lastNotificationCount' = lastNotificationCount
                    /\ badge' = badge]_vars

\* a 304 has just been answered while a count was cached and shown
C5_Witness ==
    /\ ev.op = "notifDone"
    /\ ev.status = 304
    /\ lastNotificationCount > 0
    /\ badge.visible

\* C6: while the client exists, the handler that ends the PR fetch, with a
\* result or with a failure, sends the one notification request of its
\* cycle with the filters the settings hold at that moment; no other
\* handler puts a cycle at the notification fetch
C6_NotificationsAfterPRFetch ==
    [][ /\ (client /\ ev'.op \in {"prOk", "prFail"}) =>
            \E i \in 1..Len(cycles) :
                /\ cycles[i].pc = "pr"
                /\ cycles' = [cycles EXCEPT ![i] =
                                [pc |-> "notif", filters |-> settings'.filters,
                                 ims |-> lastNotificationPoll']]
        /\ Pending(cycles', "notif") > Pending(cycles, "notif") =>
            /\ ev'.op \in {"prOk", "prFail"}
            /\ Pending(cycles', "notif") = Pending(cycles, "notif") + 1
        /\ ev'.op = "notifDone" => EndsCycleAt(cycles, cycles', "notif") ]_vars

\* a PR fetch has just failed and its cycle waits for the notification
\* answer with the filters that are configured now
C6_Witness ==
    /\ ev.op = "prFail"
    /\ settings.filters # <<>>
    /\ \E i \in 1..Len(cycles) :
        /\ cycles[i].pc = "notif"
        /\ cycles[i].filters = settings.filters

\* C7: a change of the interval while a timer is armed removes that timer,
\* arms one new timer with the new interval and starts no refresh cycle
C7_IntervalChangeRearms ==
    [][(settings'.interval # settings.interval /\ timerId # 0) =>
        /\ timerId' # 0
        /\ timerId' # timerId
        /\ timers' = {[id |-> timerId', interval |-> settings'.interval]}
        /\ cycles' = cycles]_vars

\* the interval has just changed from 300 to 60 and the timer was re-armed
C7_Witness ==
    /\ ev.op = "setInterval"
    /\ settings.interval = 60
    /\ timers = {[id |-> 2, interval |-> 60]}
    /\ timerId = 2

\* C8: until destroy() the stored timer stays armed: no handler of a
\* refresh cycle and no tick removes it, and a tick can start a new cycle
\* whatever the earlier cycles did and wherever they are suspended
C8_TimerSurvivesCycles ==
    /\ [](~destroyed =>
            /\ \E t \in timers : t.id = timerId
            /\ Len(cycles) < MaxInFlight => ENABLED (\E t \in timers : Tick(t)))
    /\ [][ev'.op \notin {"setInterval", "destroy"} =>
            /\ timers' = timers
            /\ timerId' = timerId]_vars

\* a tick has just started a cycle while an earlier one hangs on its request
C8_Witness ==
    /\ ev.op = "tick"
    /\ Len(cycles) = 2
    /\ cycles[1].pc = "pr"
    /\ cycles[2].pc = "token"
    /\ timers # {}

\* C9: destroy() leaves no timer, no settings handler and no client; after
\* it no handler arms a timer or starts a refresh cycle
C9_DestroyStopsScheduler ==
    /\ [](destroyed =>
            /\ timers = {}
            /\ timerId = 0
            /\ settingsConnections = {}
            /\ ~client
            /\ ~session)
    /\ [][destroyed' =>
            /\ timers' = {}
            /\ destroyed => Len(cycles') <= Len(cycles)
            /\ ~destroyed => cycles' = cycles]_vars

\* destroy() ran with a cycle in flight, and the interval has just been
\* changed after it
C9_Witness ==
    /\ destroyed
    /\ ev.op = "setInterval"
    /\ settings.interval = 60
    /\ timers = {}
    /\ Len(cycles) > 0

\* C10 (as claimed): a PR fetch that fails with 401 or 403 leaves an error
\* menu on display
C10_AuthFailureShown ==
    (ev.op = "prFail" /\ ev.status \in {401, 403}) => ErrorView(menuView)

\* C11: a token lookup that throws builds the 'Failed to read token' error
\* menu and ends the cycle there: the cached bucket set, the cached count,
\* the badge and the cache token are as they were, and no request is sent
C11_TokenFailureKeepsState ==
    [][ev'.op = "tokenThrow" =>
        /\ menuView' = _buildMenuError("Failed to read token from keyring")
        /\ ErrorView(menuView')
        /\ lastCategories' = lastCategories
        /\ lastNotificationCount' = lastNotificationCount
        /\ badge' = badge
        /\ lastNotificationPoll' = lastNotificationPoll
        /\ EndsCycleAt(cycles, cycles', "token")
        /\ Pending(cycles', "pr") = Pending(cycles, "pr")
        /\ Pending(cycles', "notif") = Pending(cycles, "notif")]_vars

\* the token lookup has just thrown while a bucket set and a count were
\* cached and the badge was showing
C11_Witness ==
    /\ ev.op = "tokenThrow"
    /\ lastCategories # <<>>
    /\ lastNotificationCount > 0
    /\ badge.visible
    /\ ErrorView(menuView)

\* the notification exchanges the claim lists as leaving the cache token
\* alone: a 304, a status outside 2xx, a 2xx without Last-Modified, and a
\* fetchNotifications call that fails
KeepsToken(resp, filterReasons, poll) ==
    \/ resp.status = 304
    \/ resp.status < 200 \/ resp.status >= 300
    \/ resp.lastMod = ""
    \/ fetchNotifications(resp, filterReasons, poll).threw

\* C12 (as claimed): the cache token changes only when a notification
\* request is answered 2xx with a Last-Modified header, and then becomes
\* that header; a 304, a status outside 2xx, a 2xx without the header, a
\* fetchNotifications call that fails and every PR request leave it as it
\* was; a notification request carries If-Modified-Since exactly when the
\* token is set, with the value of the token
C12_CacheTokenOnlyOnSuccess ==
    [][ /\ lastNotificationPoll' # lastNotificationPoll =>
            /\ ev'.op = "notifDone"
            /\ ev'.status >= 200 /\ ev'.status < 300
            /\ lastNotificationPoll' # ""
        /\ ev'.op \in {"prOk", "prFail", "tokenFound", "clientGone"} =>
            lastNotificationPoll' = lastNotificationPoll
        /\ ev'.op = "notifDone" =>
            \A i \in 1..Len(cycles), resp \in NotifResponses :
                NotificationsDone(i, resp) =>
                    IF KeepsToken(resp, cycles[i].filters, lastNotificationPoll)
                    THEN lastNotificationPoll' = lastNotificationPoll
                    ELSE lastNotificationPoll' = resp.lastMod
        /\ \A i \in 1..Len(cycles) :
            (cycles[i].pc = "pr" /\ i <= Len(cycles') /\ cycles'[i].pc = "notif") =>
                cycles'[i].ims = lastNotificationPoll' ]_vars

\* the number of entries of a feed that a set of enabled reasons lets
\* through (all of them when the set is empty)
CountUnder(feed, filterReasons) ==
    IF filterReasons = <<>> THEN Len(feed)
    ELSE Cardinality({j \in 1..Len(feed) :
                        \E k \in 1..Len(filterReasons) : filterReasons[k] = feed[j]})

\* C13 (as claimed): a change of the filter leaves the cached count and the
\* badge alone, and once a notification fetch that was sent with the
\* filter now configured has completed without failing, the cached count
\* is a count under that filter
C13_NextFetchReflectsFilter ==
    [][ /\ ev'.op = "setFilters" =>
            /\ lastNotificationCount' = lastNotificationCount
            /\ badge' = badge
        /\ ev'.op = "notifDone" =>
            \A i \in 1..Len(cycles), resp \in NotifResponses :
                ( /\ NotificationsDone(i, resp)
                  /\ cycles[i].filters = settings.filters
                  /\ ~fetchNotifications(resp, cycles[i].filters,
                                         lastNotificationPoll).threw ) =>
                    \E k \in 1..Len(NotifFeeds) :
                        lastNotificationCount' =
                            CountUnder(NotifFeeds[k], settings.filters) ]_vars

\* the bucket the claimed priority order gives a pull request
BucketOf(pr) ==
    IF pr.isDraft THEN "draft"
    ELSE IF pr.reviewDecision = "APPROVED" THEN "approved"
    ELSE IF pr.reviewDecision = "CHANGES_REQUESTED" THEN "changesRequested"
    ELSE "reviewRequired"

Buckets == {"approved", "changesRequested", "reviewRequired", "draft"}

\* C14: categorizePRs returns four buckets; each is the subsequence, in
\* input order, of the pull requests whose bucket by the priority order
\* draft, approved, changesRequested, reviewRequired it is; so every pull
\* request is in exactly one bucket and the sizes add up to the input
C14_ExactlyOneBucket ==
    result # <<>> =>
        LET categories == result[1] IN
        /\ DOMAIN categories = Buckets
        /\ \A b \in Buckets :
            categories[b] = SelectSeq(arg, LAMBDA pr : BucketOf(pr) = b)
        /\ \A i \in 1..Len(arg) :
            Cardinality({b \in Buckets : Includes(categories[b], arg[i])}) = 1
        /\ Len(categories.approved) + Len(categories.changesRequested)
            + Len(categories.reviewRequired) + Len(categories.draft) = Len(arg)

\* an approved draft went to the draft bucket, and two pull requests with a
\* null and with an unnamed decision went to reviewRequired in input order
C14_Witness ==
    /\ result # <<>>
    /\ Len(arg) = 3
    /\ arg[1].reviewDecision = "DISMISSED" /\ ~arg[1].isDraft
    /\ arg[2].reviewDecision = "APPROVED" /\ arg[2].isDraft
    /\ arg[3].reviewDecision = "null" /\ ~arg[3].isDraft
    /\ result[1].draft = <<arg[2]>>
    /\ result[1].reviewRequired = <<arg[1], arg[3]>>
    /\ result[1].approved = <<>>

\* C15: a notification fetch answered 2xx returns the number of entries of
\* the feed whose reason is among the enabled reasons, or the number of all
\* entries when no reason is enabled; the result lies between 0 and the
\* length of the feed
C15_CountsEnabledReasons ==
    result # <<>> =>
        /\ ~result[1].threw
        /\ result[1].count = CountUnder(arg.feed, arg.filterReasons)
        /\ arg.filterReasons = <<>> => result[1].count = Len(arg.feed)
        /\ result[1].count >= 0
        /\ result[1].count <= Len(arg.feed)

\* the feed [mention, review_requested, review_requested] under the filter
\* {review_requested} was counted as 2
C15_Witness ==
    /\ result # <<>>
    /\ arg.feed = <<"mention", "review_requested", "review_requested">>
    /\ arg.filterReasons = <<"review_requested">>
    /\ result[1].count = 2

\* the head commit of a raw node has a status-check rollup
HasRollup(node) ==
    /\ node.commits # <<>>
    /\ Len(node.commits[1].nodes) > 0
    /\ node.commits[1].nodes[1].commit # <<>>
    /\ node.commits[1].nodes[1].commit[1].statusCheckRollup # <<>>

RollupState(node) == node.commits[1].nodes[1].commit[1].statusCheckRollup[1].state

\* C16: ciStatus is none exactly when the head commit has no status-check
\* rollup (no commits, no commit, no rollup), and then checks is empty;
\* with a rollup it is success exactly for the state SUCCESS, failure
\* exactly for FAILURE and ERROR, pending for every other state
C16_CiStatusFromRollup ==
    result # <<>> =>
        LET pr == result[1] IN
        /\ pr.ciStatus = "none" <=> ~HasRollup(arg)
        /\ ~HasRollup(arg) => pr.checks = <<>>
        /\ HasRollup(arg) =>
            /\ pr.ciStatus = "success" <=> RollupState(arg) = "SUCCESS"
            /\ pr.ciStatus = "failure" <=> RollupState(arg) \in {"FAILURE", "ERROR"}
            /\ pr.ciStatus = "pending"
                    <=> RollupState(arg) \notin {"SUCCESS", "FAILURE", "ERROR"}

\* a node without commits was normalized to ciStatus none and no checks
C16_Witness ==
    /\ result # <<>>
    /\ arg.commits = <<>>
    /\ result[1].ciStatus = "none"
    /\ result[1].checks = <<>>

\* the reviews of a raw node that carry an author login
Authored(node) ==
    LET reviews == IF node.reviews = <<>> THEN <<>> ELSE node.reviews[1]
    IN SelectSeq(reviews, LAMBDA r : r.author # <<>>)

\* C17: reviewers holds exactly one entry for every login that occurs in
\* the reviews, and the state of the entry is the state of the last
\* review of that login in the list
C17_LastReviewWins ==
    result # <<>> =>
        LET reviewers == result[1].reviewers
            authored == Authored(arg)
            logins == {authored[i].author[1].login : i \in 1..Len(authored)}
        IN /\ {reviewers[k].login : k \in 1..Len(reviewers)} = logins
           /\ Len(reviewers) = Cardinality(logins)
           /\ \A k \in 1..Len(reviewers) :
                \E i \in 1..Len(authored) :
                    /\ authored[i].author[1].login = reviewers[k].login
                    /\ authored[i].state = reviewers[k].state
                    /\ \A j \in (i + 1)..Len(authored) :
                        authored[j].author[1].login # reviewers[k].login

\* the reviews [A: APPROVED, B: COMMENTED, A: CHANGES_REQUESTED] gave the
\* reviewers A: CHANGES_REQUESTED and B: COMMENTED
C17_Witness ==
    /\ result # <<>>
    /\ arg.reviews = << << Review(<< [login |-> "A"] >>, "APPROVED"),
                          Review(<< [login |-> "B"] >>, "COMMENTED"),
                          Review(<< [login |-> "A"] >>, "CHANGES_REQUESTED") >> >>
    /\ result[1].reviewers = << [login |-> "A", state |-> "CHANGES_REQUESTED"],
                                [login |-> "B", state |-> "COMMENTED"] >>

\* the status the claimed table gives a check context
TableStatus(ctx) ==
    IF "conclusion" \in DOMAIN ctx
    THEN CASE ctx.status = "COMPLETED" /\ ctx.conclusion = "SUCCESS" -> "success"
           [] ctx.status = "COMPLETED" /\ ctx.conclusion # "SUCCESS" -> "failure"
           [] OTHER -> "pending"
    ELSE CASE ctx.state = "SUCCESS" -> "success"
           [] ctx.state \in {"FAILURE", "ERROR"} -> "failure"
           [] OTHER -> "pending"

\* the check contexts of a raw node (none without a rollup)
RawContexts(node) ==
    IF ~HasRollup(node) THEN <<>>
    ELSE LET rollup == node.commits[1].nodes[1].commit[1].statusCheckRollup[1]
         IN IF rollup.contexts = <<>> THEN <<>> ELSE rollup.contexts[1].nodes

\* C18: checks has one {name, status, url} record per check context, at
\* the place of the context, with the status of the claimed table, the
\* name and details URL of a check run, the context and target URL of a
\* status context
C18_ChecksUnified ==
    result # <<>> =>
        LET checks == result[1].checks
            contexts == RawContexts(arg)
        IN /\ Len(checks) = Len(contexts)
           /\ \A k \in 1..Len(contexts) :
                /\ DOMAIN checks[k] = {"name", "status", "url"}
                /\ checks[k].status = TableStatus(contexts[k])
                /\ checks[k].name = IF "conclusion" \in DOMAIN contexts[k]
                                    THEN contexts[k].name ELSE contexts[k].context
                /\ checks[k].url = IF "conclusion" \in DOMAIN contexts[k]
                                   THEN contexts[k].detailsUrl ELSE contexts[k].targetUrl

\* a check run completed as NEUTRAL followed by a status context in state
\* ERROR gave two checks of status failure, in that order
C18_Witness ==
    /\ result # <<>>
    /\ RawContexts(arg) = << CheckRun("build", "COMPLETED", "NEUTRAL"),
                             StatusContext("ci/lint", "ERROR") >>
    /\ result[1].checks = << [name |-> "build", status |-> "failure", url |-> "details"],
                             [name |-> "ci/lint", status |-> "failure", url |-> "target"] >>

\* C19 (as claimed): at most one refresh cycle is in flight, so no two
\* cycles have a request pending on the session or a notification request
\* built from the cache token at the same time
C19_OneCycleInFlight ==
    /\ Len(cycles) <= 1
    /\ Pending(cycles, "pr") + Pending(cycles, "notif") <= 1

\* C20 (as claimed): the cached bucket set is never replaced by the result
\* of a PR fetch that was issued before the fetch whose result is cached:
\* when the handler that ran last stored the result of the one cycle that
\* now waits for its notification answer, this handler does not put the
\* result of a cycle whose PR fetch was issued before that one in its place
C20_NoStaleOverwrite ==
    [][(ev.op = "prOk" /\ ev'.op = "prOk" /\ Pending(cycles, "notif") = 1) =>
        \A i, j \in 1..Len(cycles) :
            (i < j /\ cycles[i].pc = "pr" /\ cycles[j].pc = "notif") =>
                ~(cycles'[i].pc = "notif" /\ lastCategories' # lastCategories) ]_vars

\* the badge shows the count: hidden for 0, otherwise visible with the
\* count as its text, '99+' above the cap
BadgeShows(b, count) ==
    IF count = 0 THEN ~b.visible
    ELSE /\ b.visible
         /\ b.text = IF count > BadgeCap THEN "99+" ELSE ToString(count)

\* C21 (as claimed): the badge agrees with the cached count, in particular
\* when a notification fetch has just been answered 304
C21_BadgeAgreesWithCount ==
    (ev.op = "notifDone" /\ ev.status = 304) =>
        BadgeShows(badge, lastNotificationCount)

\* C22: at most one timer is armed and the stored handle is its id: the
\* handle is null exactly when no timer is armed; a timer that a handler
\* arms has the interval the settings hold when that handler returns, and
\* an armed timer never changes its interval
C22_OneTimerArmed ==
    /\ [](/\ Cardinality(timers) <= 1
          /\ timerId # 0 <=> timers # {}
          /\ \A t \in timers : t.id = timerId)
    /\ [][ /\ \A t \in timers' \ timers : t.interval = settings'.interval
           /\ \A t \in timers, u \in timers' : t.id = u.id => t.interval = u.interval
          ]_vars

\* the interval has just been changed for the second time, back to 300, and
\* the one armed timer is the one the handle names
C22_Witness ==
    /\ ev.op = "setInterval"
    /\ ~destroyed
    /\ settings.interval = 300
    /\ timerId = 1
    /\ timers = {[id |-> 1, interval |-> 300]}

====
